---- MODULE Spec2Model ----
(***************************************************************************)
(* Model of ReactNativeClient/lib/services/SearchEngine.js: the index      *)
(* synchronizer (syncTables, rebuildIndex_), its run guard (isIndexing_)   *)
(* and its two scheduling triggers (scheduleSyncTables, runInBackground);  *)
(* the ranker (calculateWeight_, orderResults_); and the query parser      *)
(* (parseQuery, queryTermToRegex).                                         *)
(*                                                                         *)
(* Execution is single-threaded and cooperative: an async function runs    *)
(* without interruption from one await to the next.  Each action of the    *)
(* synchronizer is one such segment: the effect of the awaited             *)
(* collaborator call followed by the synchronous code up to the next       *)
(* await.  The ranker and the parser are synchronous and touch no state of *)
(* the instance: each has a specification of its own (RankSpec,            *)
(* ParseSpec) that draws its inputs and applies it.                        *)
(***************************************************************************)
EXTENDS Integers, Sequences, FiniteSets, TLC

\* ------------------------------------------------------------------ bounds

\* Number of note ids the item store may hold.
MaxNotes == 2
\* Number of change records ever written to item_changes.
MaxChangeId == 2
\* Stand-ins for the two batch sizes of 100, scaled down so that a rebuild and
\* a run need several batches: noteIds.splice(0, 100) in rebuildIndex_ and
\* LIMIT 100 in syncTables.
RebuildBatchSize == 1
ChangesLimit == 2

NoteIds == 1..MaxNotes

\* The three places that call syncTables(): runInBackground's direct call,
\* runInBackground's timer and scheduleSyncTables' timer.
Callers == {"bg", "interval", "debounce"}

\* ItemChange.TYPE_CREATE, TYPE_UPDATE, TYPE_DELETE, and a value that is none
\* of them.
TYPE_CREATE == "create"
TYPE_UPDATE == "update"
TYPE_DELETE == "delete"
TYPE_OTHER == "other"

\* ------------------------------------------------------------------- state

VARIABLES
    notes,                    \* table notes: id -> row
    pending,                  \* item changes recorded but not yet saved
    item_changes,             \* table item_changes, ascending by id
    nextChangeId,             \* the AUTOINCREMENT counter of item_changes
    notes_normalized,         \* table notes_normalized: id -> number of rows
    lastProcessedChangeId,    \* Setting 'searchEngine.lastProcessedChangeId'
    initialIndexingDone,      \* Setting 'searchEngine.initialIndexingDone'
    savedLastProcessedChangeId, \* the watermark as last written by saveAll()
    isIndexing_,              \* this.isIndexing_
    scheduleSyncTablesIID_,   \* this.scheduleSyncTablesIID_ is set
    isRunningInBackground_,   \* SearchEngine.isRunningInBackground_
    intervalTimers,           \* pending timeouts of runInBackground
    debounceTimers,           \* pending timeouts of scheduleSyncTables
    pc,                       \* where each caller's syncTables() call stands
    local,                    \* the local variables of each syncTables() call
    \* history variables, read by no action's guard or effect on the above
    noWriteSinceRebuild,      \* no note was written since rebuildIndex_ began
    agreedAtStart,            \* the index agreed with notes when the loop began
    committedAbove,           \* last ids of applied batches above the saved watermark
    lastCommitted,            \* last id of the last applied batch, 0 if none
    coalesced,                \* the pending timer has absorbed a schedule call
    \* the ranker: orderResults_(rows, parsedQuery)
    rows,                     \* the match rows, each with its offsets and weight
    termCount,                \* parsedQuery.termCount
    ordered,                  \* orderResults_ has sorted rows
    \* the parser: parseQuery(query)
    query,                    \* the query string, a sequence of characters
    parsed                    \* what parseQuery(query) returned, NotParsed before

dbVars == <<notes, pending, item_changes, nextChangeId, notes_normalized>>
settingVars == <<lastProcessedChangeId, initialIndexingDone, savedLastProcessedChangeId>>
timerVars == <<isRunningInBackground_, intervalTimers, debounceTimers>>
procVars == <<isIndexing_, scheduleSyncTablesIID_, pc, local>>

histVars == <<noWriteSinceRebuild, agreedAtStart, committedAbove, lastCommitted, coalesced>>

syncVars == <<dbVars, settingVars, timerVars, procVars, histVars>>

rankVars == <<rows, termCount, ordered>>
parseVars == <<query, parsed>>

\* The state of the two pure components, which the synchronizer never touches.
pureVars == <<rankVars, parseVars>>

vars == <<syncVars, pureVars>>

\* ----------------------------------------------------------------- helpers

NoNote == [exists |-> FALSE, is_conflict |-> 0, encryption_applied |-> 0]

PlainRow == [exists |-> TRUE, is_conflict |-> 0, encryption_applied |-> 0]
ConflictRow == [exists |-> TRUE, is_conflict |-> 1, encryption_applied |-> 0]
EncryptedRow == [exists |-> TRUE, is_conflict |-> 0, encryption_applied |-> 1]

\* The rows note n can be saved as: plain, or hidden from the index.  Notes of
\* odd id are the ones that can be conflict copies, notes of even id the ones
\* that can be encrypted.
NoteRows(n) == {PlainRow, IF n % 2 = 1 THEN ConflictRow ELSE EncryptedRow}

\* WHERE is_conflict = 0 AND encryption_applied = 0
Eligible(row) == row.exists /\ row.is_conflict = 0 /\ row.encryption_applied = 0

Min(S) == CHOOSE x \in S : \A y \in S : x <= y

RECURSIVE SortedSeq(_)
SortedSeq(S) == IF S = {} THEN <<>> ELSE <<Min(S)>> \o SortedSeq(S \ {Min(S)})

Take(s, k) == SubSeq(s, 1, IF Len(s) < k THEN Len(s) ELSE k)
Drop(s, k) == SubSeq(s, (IF Len(s) < k THEN Len(s) ELSE k) + 1, Len(s))

Range(s) == { s[i] : i \in 1..Len(s) }

EmptyLocal ==
    [ noteIds |-> <<>>, currentIds |-> <<>>, rbLastChangeId |-> 0,
      lastChangeId |-> 0, changes |-> <<>>, queries |-> <<>> ]

\* SELECT id FROM notes WHERE is_conflict = 0 AND encryption_applied = 0
SelectNoteIds(tbl) == SortedSeq({ n \in NoteIds : Eligible(tbl[n]) })

\* ItemChange.lastChangeId(): the highest id in item_changes, 0 when empty.
LastChangeId(log) == IF log = <<>> THEN 0 ELSE log[Len(log)].id

\* SELECT id, title, body FROM notes WHERE id IN (ids) AND is_conflict = 0
\* AND encryption_applied = 0: the ids of the rows returned.
SelectNotesIn(tbl, ids) == { n \in Range(ids) : Eligible(tbl[n]) }

\* Mutant: WHERE id >= ?
SelectChangesFromId(log, lastId) ==
    Take(SelectSeq(log, LAMBDA c : c.id >= lastId), ChangesLimit)

\* SELECT ... FROM item_changes WHERE id > ? ORDER BY id ASC LIMIT 100
SelectChanges(log, lastId) ==
    Take(SelectSeq(log, LAMBDA c : c.id > lastId), ChangesLimit)

\* Mutant: noteById_ finds a row for every id.
noteByIdAlways(found, noteId) == TRUE

\* noteById_(notes, noteId): whether a row is found.
noteById_(found, noteId) == noteId \in found

Delete(id) == [sql |-> "DELETE", id |-> id]
Insert(id) == [sql |-> "INSERT", id |-> id]

\* The statements of rebuildIndex_ for one batch of rows.
RECURSIVE RebuildQueries(_, _)
RebuildQueries(ids, found) ==
    IF ids = <<>> THEN <<>>
    ELSE (IF Head(ids) \in found THEN <<Insert(Head(ids))>> ELSE <<>>)
         \o RebuildQueries(Tail(ids), found)

\* Mutant: a Create or Update inserts without deleting the old row first.
ChangeQueriesNoDelete(change, found) ==
    IF change.type \in {TYPE_CREATE, TYPE_UPDATE}
    THEN IF change.item_id \in found THEN <<Insert(change.item_id)>> ELSE <<>>
    ELSE <<Delete(change.item_id)>>

\* Mutant: a Delete record pushes no statement.
ChangeQueriesDeleteIgnored(change, found) ==
    IF change.type \in {TYPE_CREATE, TYPE_UPDATE}
    THEN <<Delete(change.item_id)>>
         \o (IF change.item_id \in found THEN <<Insert(change.item_id)>> ELSE <<>>)
    ELSE <<>>

\* The statements syncTables pushes for one change record.
ChangeQueries(change, found) ==
    IF change.type \in {TYPE_CREATE, TYPE_UPDATE}
    THEN <<Delete(change.item_id)>>
         \o (IF noteById_(found, change.item_id) THEN <<Insert(change.item_id)>> ELSE <<>>)
    ELSE <<Delete(change.item_id)>>

ValidType(t) == t \in {TYPE_CREATE, TYPE_UPDATE, TYPE_DELETE}

\* Mutant: a record of an unknown type is skipped and the loop goes on.
RECURSIVE BuildQueriesSkipInvalid(_, _, _)
BuildQueriesSkipInvalid(changes, found, lastId) ==
    IF changes = <<>> THEN [thrown |-> FALSE, queries |-> <<>>, lastChangeId |-> lastId]
    ELSE LET rest == BuildQueriesSkipInvalid(Tail(changes), found, Head(changes).id)
         IN  [ thrown |-> FALSE,
               queries |-> (IF ValidType(Head(changes).type)
                            THEN ChangeQueries(Head(changes), found) ELSE <<>>)
                           \o rest.queries,
               lastChangeId |-> rest.lastChangeId ]

\* The for loop of syncTables over one fetched batch: the statements, the id of
\* the last record, and whether the loop threw 'Invalid change type'.
RECURSIVE BuildQueries(_, _, _)
BuildQueries(changes, found, lastId) ==
    IF changes = <<>> THEN [thrown |-> FALSE, queries |-> <<>>, lastChangeId |-> lastId]
    ELSE IF ~ValidType(Head(changes).type)
         THEN [thrown |-> TRUE, queries |-> <<>>, lastChangeId |-> lastId]
         ELSE LET rest == BuildQueries(Tail(changes), found, Head(changes).id)
              IN  [ thrown |-> rest.thrown,
                    queries |-> ChangeQueries(Head(changes), found) \o rest.queries,
                    lastChangeId |-> rest.lastChangeId ]

ExecQuery(tbl, q) ==
    IF q.sql = "DELETE" THEN [tbl EXCEPT ![q.id] = 0]
    ELSE [tbl EXCEPT ![q.id] = @ + 1]

\* db().transactionExecBatch(queries): all statements, in order, atomically.
RECURSIVE transactionExecBatch(_, _)
transactionExecBatch(tbl, queries) ==
    IF queries = <<>> THEN tbl
    ELSE transactionExecBatch(ExecQuery(tbl, Head(queries)), Tail(queries))

\* ItemChangeUtils.deleteProcessedChanges(): drops the records at or below
\* the watermark.
deleteProcessedChanges(log, watermark) == SelectSeq(log, LAMBDA c : c.id > watermark)

\* Mutant: syncTables without its guard.
GuardNever(flag) == FALSE

\* if (this.isIndexing_) return;
GuardBlocks(flag) == flag

\* if (!Setting.value('searchEngine.initialIndexingDone'))
NeedsRebuild(done) == ~done

\* The index holds exactly one row for note n if the note is eligible, and
\* none otherwise.
Agrees(n) == notes_normalized[n] = IF Eligible(notes[n]) THEN 1 ELSE 0

\* A change of note n is still to be processed by a run that starts from
\* watermark w: it is recorded and not yet saved, or saved with an id above w.
ChangeAbove(n, w) ==
    \/ \E i \in 1..Len(pending) : pending[i].item_id = n /\ ValidType(pending[i].type)
    \/ \E i \in 1..Len(item_changes) :
            /\ item_changes[i].item_id = n
            /\ ValidType(item_changes[i].type)
            /\ item_changes[i].id > w

\* The index agrees with the item store at watermark w: every note whose index
\* rows differ from the store has a change above w.
AgreesAbove(w) == \A n \in NoteIds : Agrees(n) \/ ChangeAbove(n, w)

\* ------------------------------------------------------------------- Init

\* The synchronizer after construction, before any trigger.
SyncInit ==
    /\ notes = [n \in NoteIds |-> NoNote]
    /\ pending = <<>>
    /\ item_changes = <<>>
    /\ nextChangeId = 1
    \* empty, or the rows a previous, failed initial indexing left behind
    /\ notes_normalized \in {[n \in NoteIds |-> 0], [n \in NoteIds |-> 1]}
    /\ lastProcessedChangeId = 0
    /\ initialIndexingDone = FALSE
    /\ savedLastProcessedChangeId = 0
    /\ isIndexing_ = FALSE
    /\ scheduleSyncTablesIID_ = FALSE
    /\ isRunningInBackground_ = FALSE
    /\ intervalTimers = 0
    /\ debounceTimers = 0
    /\ pc = [p \in Callers |-> "idle"]
    /\ local = [p \in Callers |-> EmptyLocal]
    /\ noWriteSinceRebuild = FALSE
    /\ agreedAtStart = TRUE
    /\ committedAbove = {}
    /\ lastCommitted = 0
    /\ coalesced = FALSE

\* The value of parsed before parseQuery has returned.
NotParsed == [termCount |-> 0 - 1, keys |-> <<>>, terms |-> <<>>]

\* No search is being served: the ranker and the parser hold nothing.
RankIdle == rows = <<>> /\ termCount = 0 /\ ordered = FALSE
ParseIdle == query = <<>> /\ parsed = NotParsed

Init == SyncInit /\ RankIdle /\ ParseIdle

\* --------------------------------------------------------- the item store

ChangesLeft == (nextChangeId - 1) + Len(pending) < MaxChangeId

\* Note.save(): writes the row and records a change, saved asynchronously.
SaveNote(n, row) ==
    /\ ChangesLeft
    /\ row # notes[n]
    /\ notes' = [notes EXCEPT ![n] = row]
    /\ pending' = Append(pending,
            [item_id |-> n, type |-> IF notes[n].exists THEN TYPE_UPDATE ELSE TYPE_CREATE])
    /\ noWriteSinceRebuild' = FALSE
    /\ UNCHANGED <<item_changes, nextChangeId, notes_normalized>>
    /\ UNCHANGED <<settingVars, timerVars, procVars>>
    /\ UNCHANGED <<agreedAtStart, committedAbove, lastCommitted, coalesced>>
    /\ UNCHANGED pureVars

\* Note.delete()
DeleteNote(n) ==
    /\ ChangesLeft
    /\ notes[n].exists
    /\ notes' = [notes EXCEPT ![n] = NoNote]
    /\ pending' = Append(pending, [item_id |-> n, type |-> TYPE_DELETE])
    /\ noWriteSinceRebuild' = FALSE
    /\ UNCHANGED <<item_changes, nextChangeId, notes_normalized>>
    /\ UNCHANGED <<settingVars, timerVars, procVars>>
    /\ UNCHANGED <<agreedAtStart, committedAbove, lastCommitted, coalesced>>
    /\ UNCHANGED pureVars

\* A change record of a type this version does not know.  syncTables throws
\* before it uses the record's item_id, so one id stands for all.
OtherChange(n) ==
    /\ ChangesLeft
    /\ pending' = Append(pending, [item_id |-> n, type |-> TYPE_OTHER])
    /\ UNCHANGED <<notes, item_changes, nextChangeId, notes_normalized>>
    /\ UNCHANGED <<settingVars, timerVars, procVars, histVars>>
    /\ UNCHANGED pureVars

\* The oldest recorded change reaches item_changes.
ItemChangeSaved ==
    /\ pending # <<>>
    /\ item_changes' = Append(item_changes,
            [id |-> nextChangeId, item_id |-> Head(pending).item_id, type |-> Head(pending).type])
    /\ nextChangeId' = nextChangeId + 1
    /\ pending' = Tail(pending)
    /\ UNCHANGED <<notes, notes_normalized>>
    /\ UNCHANGED <<settingVars, timerVars, procVars, histVars>>
    /\ UNCHANGED pureVars

\* -------------------------------------------------------------- syncTables

\* syncTables() returns to caller p.  The timer callback of scheduleSyncTables
\* then clears scheduleSyncTablesIID_.
Return(p) ==
    /\ pc' = [pc EXCEPT ![p] = IF p = "debounce" THEN "idle" ELSE "returned"]
    /\ local' = [local EXCEPT ![p] = EmptyLocal]
    /\ scheduleSyncTablesIID_' = IF p = "debounce" THEN FALSE ELSE scheduleSyncTablesIID_

\* syncTables() rejects, with its own 'Invalid change type' error ("failed")
\* or with a collaborator's ("rejected"): nothing after the throw runs.
Throw(p, how) ==
    /\ pc' = [pc EXCEPT ![p] = how]
    /\ local' = [local EXCEPT ![p] = EmptyLocal]
    /\ UNCHANGED <<isIndexing_, scheduleSyncTablesIID_>>

Goto(p, label, loc) ==
    /\ pc' = [pc EXCEPT ![p] = label]
    /\ local' = [local EXCEPT ![p] = loc]
    /\ UNCHANGED scheduleSyncTablesIID_

\* Mutant: syncTables passes the guard without setting isIndexing_.
InvokeNoFlag(p) ==
    /\ pc[p] = "idle"
    /\ IF GuardBlocks(isIndexing_)
       THEN Return(p)
       ELSE Goto(p, "waitForAllSaved", local[p])
    /\ UNCHANGED <<isIndexing_, dbVars, settingVars>>

\* Caller p calls syncTables(): the guard, up to await waitForAllSaved().
Invoke(p) ==
    /\ pc[p] = "idle"
    /\ IF GuardBlocks(isIndexing_)
       THEN /\ Return(p)
            /\ UNCHANGED isIndexing_
       ELSE /\ isIndexing_' = TRUE
            /\ Goto(p, "waitForAllSaved", local[p])
    /\ UNCHANGED <<dbVars, settingVars>>

\* await ItemChange.waitForAllSaved() resolves; the flag decides the path.
WaitForAllSaved(p) ==
    /\ pc[p] = "waitForAllSaved"
    /\ pending = <<>>
    /\ IF NeedsRebuild(initialIndexingDone)
       THEN /\ Goto(p, "rb_selectIds", local[p])
            /\ noWriteSinceRebuild' = TRUE
            /\ UNCHANGED agreedAtStart
       ELSE /\ Goto(p, "fetch", [local[p] EXCEPT !.lastChangeId = lastProcessedChangeId])
            /\ agreedAtStart' = AgreesAbove(lastProcessedChangeId)
            /\ UNCHANGED noWriteSinceRebuild
    /\ UNCHANGED <<dbVars, settingVars, timerVars, isIndexing_>>
    /\ UNCHANGED <<committedAbove, lastCommitted, coalesced>>
    /\ UNCHANGED pureVars

\* rebuildIndex_: SELECT id FROM notes WHERE ...
RbSelectIds(p) ==
    /\ pc[p] = "rb_selectIds"
    /\ Goto(p, "rb_lastChangeId", [local[p] EXCEPT !.noteIds = SelectNoteIds(notes)])
    /\ UNCHANGED <<dbVars, settingVars, timerVars, isIndexing_, histVars>>
    /\ UNCHANGED pureVars

\* rebuildIndex_: const lastChangeId = await ItemChange.lastChangeId()
RbLastChangeId(p) ==
    /\ pc[p] = "rb_lastChangeId"
    /\ Goto(p, "rb_delete", [local[p] EXCEPT !.rbLastChangeId = LastChangeId(item_changes)])
    /\ UNCHANGED <<dbVars, settingVars, timerVars, isIndexing_, histVars>>
    /\ UNCHANGED pureVars

\* rebuildIndex_'s while (noteIds.length): the next batch, or the end of the
\* rebuild, on which syncTables sets the flag, clears the guard and returns.
RbLoop(p) ==
    IF local[p].noteIds = <<>>
    THEN /\ lastProcessedChangeId' = local[p].rbLastChangeId
         /\ initialIndexingDone' = TRUE
         /\ isIndexing_' = FALSE
         /\ Return(p)
         /\ UNCHANGED savedLastProcessedChangeId
    ELSE /\ Goto(p, "rb_selectNotes",
                 [local[p] EXCEPT !.currentIds = Take(local[p].noteIds, RebuildBatchSize),
                                  !.noteIds = Drop(local[p].noteIds, RebuildBatchSize)])
         /\ UNCHANGED <<settingVars, isIndexing_>>

\* Mutant: rebuildIndex_ does not clear notes_normalized.
RbDeleteSkipped(p) ==
    /\ pc[p] = "rb_delete"
    /\ UNCHANGED notes_normalized
    /\ RbLoop(p)
    /\ UNCHANGED <<notes, pending, item_changes, nextChangeId, timerVars, histVars>>
    /\ UNCHANGED pureVars

\* rebuildIndex_: DELETE FROM notes_normalized
RbDelete(p) ==
    /\ pc[p] = "rb_delete"
    /\ notes_normalized' = [n \in NoteIds |-> 0]
    /\ RbLoop(p)
    /\ UNCHANGED <<notes, pending, item_changes, nextChangeId, timerVars, histVars>>
    /\ UNCHANGED pureVars

\* rebuildIndex_: the rows of the batch are read and the INSERTs are built.
RbSelectNotes(p) ==
    /\ pc[p] = "rb_selectNotes"
    /\ Goto(p, "rb_exec",
            [local[p] EXCEPT !.queries =
                RebuildQueries(local[p].currentIds, SelectNotesIn(notes, local[p].currentIds))])
    /\ UNCHANGED <<dbVars, settingVars, timerVars, isIndexing_, histVars>>
    /\ UNCHANGED pureVars

\* rebuildIndex_: await this.db().transactionExecBatch(queries)
RbExec(p) ==
    /\ pc[p] = "rb_exec"
    /\ notes_normalized' = transactionExecBatch(notes_normalized, local[p].queries)
    /\ RbLoop(p)
    /\ UNCHANGED <<notes, pending, item_changes, nextChangeId, timerVars, histVars>>
    /\ UNCHANGED pureVars

\* syncTables: the change records above lastChangeId are fetched; none ends
\* the loop.
Fetch(p) ==
    /\ pc[p] = "fetch"
    /\ LET changes == SelectChanges(item_changes, local[p].lastChangeId)
       IN  IF changes = <<>>
           THEN Goto(p, "prune", local[p])
           ELSE Goto(p, "selectNotes", [local[p] EXCEPT !.changes = changes])
    /\ UNCHANGED <<dbVars, settingVars, timerVars, isIndexing_, histVars>>
    /\ UNCHANGED pureVars

\* syncTables: the notes of the batch are read and the statements are built;
\* a record of an unknown type throws.
SelectNotes(p) ==
    /\ pc[p] = "selectNotes"
    /\ LET noteIds == [i \in 1..Len(local[p].changes) |-> local[p].changes[i].item_id]
           built == BuildQueries(local[p].changes, SelectNotesIn(notes, noteIds),
                                 local[p].lastChangeId)
       IN  IF built.thrown
           THEN Throw(p, "failed")
           ELSE /\ Goto(p, "exec", [local[p] EXCEPT !.queries = built.queries,
                                                    !.lastChangeId = built.lastChangeId])
                /\ UNCHANGED isIndexing_
    /\ UNCHANGED <<dbVars, settingVars, timerVars, histVars>>
    /\ UNCHANGED pureVars

\* syncTables: the batch is applied, then Setting.setValue(lastChangeId).
Exec(p) ==
    /\ pc[p] = "exec"
    /\ notes_normalized' = transactionExecBatch(notes_normalized, local[p].queries)
    /\ lastProcessedChangeId' = local[p].lastChangeId
    /\ Goto(p, "saveAll", [local[p] EXCEPT !.changes = <<>>, !.queries = <<>>])
    /\ committedAbove' = committedAbove \cup {local[p].lastChangeId}
    /\ lastCommitted' = local[p].lastChangeId
    /\ UNCHANGED <<notes, pending, item_changes, nextChangeId>>
    /\ UNCHANGED <<initialIndexingDone, savedLastProcessedChangeId, timerVars, isIndexing_>>
    /\ UNCHANGED <<noWriteSinceRebuild, agreedAtStart, coalesced>>
    /\ UNCHANGED pureVars

\* Mutant: the watermark is not saved after the batch.
SaveAllSkipped(p) ==
    /\ pc[p] = "saveAll"
    /\ Goto(p, "fetch", local[p])
    /\ committedAbove' = { b \in committedAbove : b > savedLastProcessedChangeId }
    /\ UNCHANGED <<dbVars, settingVars, timerVars, isIndexing_>>
    /\ UNCHANGED <<noWriteSinceRebuild, agreedAtStart, lastCommitted, coalesced>>
    /\ UNCHANGED pureVars

\* syncTables: await Setting.saveAll()
SaveAll(p) ==
    /\ pc[p] = "saveAll"
    /\ savedLastProcessedChangeId' = lastProcessedChangeId
    /\ Goto(p, "fetch", local[p])
    /\ committedAbove' = { b \in committedAbove : b > savedLastProcessedChangeId' }
    /\ UNCHANGED <<dbVars, lastProcessedChangeId, initialIndexingDone, timerVars, isIndexing_>>
    /\ UNCHANGED <<noWriteSinceRebuild, agreedAtStart, lastCommitted, coalesced>>
    /\ UNCHANGED pureVars

\* syncTables: await ItemChangeUtils.deleteProcessedChanges(), then the guard
\* is cleared and the call returns.
Prune(p) ==
    /\ pc[p] = "prune"
    /\ item_changes' = deleteProcessedChanges(item_changes, lastProcessedChangeId)
    /\ isIndexing_' = FALSE
    /\ Return(p)
    /\ UNCHANGED <<notes, pending, nextChangeId, notes_normalized, settingVars, timerVars>>
    /\ UNCHANGED histVars
    /\ UNCHANGED pureVars

\* The awaits on a write to the database: db().exec, db().transactionExecBatch.
DbWritePcs == {"rb_delete", "rb_exec", "exec"}

\* An awaited write to the database rejects.
DbWriteFails(p) ==
    /\ pc[p] \in DbWritePcs
    /\ Throw(p, "rejected")
    /\ UNCHANGED <<dbVars, settingVars, timerVars, histVars>>
    /\ UNCHANGED pureVars

\* ---------------------------------------------------------------- triggers

\* SearchEngine.runInBackground()
runInBackground ==
    /\ ~isRunningInBackground_
    /\ isRunningInBackground_' = TRUE
    /\ Invoke("bg")
    /\ intervalTimers' = intervalTimers + 1
    /\ UNCHANGED <<debounceTimers, histVars>>
    /\ UNCHANGED pureVars

\* The timeout of runInBackground fires.
IntervalFires ==
    /\ intervalTimers > 0
    /\ intervalTimers' = intervalTimers - 1
    /\ Invoke("interval")
    /\ UNCHANGED <<isRunningInBackground_, debounceTimers, histVars>>
    /\ UNCHANGED pureVars

\* Mutant: scheduleSyncTables without its check of the pending timer.
TimerNeverPending(iid) == FALSE

\* if (this.scheduleSyncTablesIID_) return;
TimerPending(iid) == iid

\* scheduleSyncTables()
scheduleSyncTables ==
    /\ IF TimerPending(scheduleSyncTablesIID_)
       THEN /\ UNCHANGED <<scheduleSyncTablesIID_, debounceTimers>>
            /\ coalesced' = (coalesced \/ debounceTimers > 0)
       ELSE /\ scheduleSyncTablesIID_' = TRUE
            /\ debounceTimers' = debounceTimers + 1
            /\ UNCHANGED coalesced
    /\ UNCHANGED <<dbVars, settingVars, isRunningInBackground_, intervalTimers>>
    /\ UNCHANGED <<isIndexing_, pc, local>>
    /\ UNCHANGED <<noWriteSinceRebuild, agreedAtStart, committedAbove, lastCommitted>>
    /\ UNCHANGED pureVars

\* The timeout of scheduleSyncTables fires.
DebounceFires ==
    /\ debounceTimers > 0
    /\ debounceTimers' = debounceTimers - 1
    /\ Invoke("debounce")
    /\ coalesced' = FALSE
    /\ UNCHANGED <<isRunningInBackground_, intervalTimers>>
    /\ UNCHANGED <<noWriteSinceRebuild, agreedAtStart, committedAbove, lastCommitted>>
    /\ UNCHANGED pureVars

\* -------------------------------------------------------------------- Next

Step(p) ==
    \/ WaitForAllSaved(p)
    \/ RbSelectIds(p)
    \/ RbLastChangeId(p)
    \/ RbDelete(p)
    \/ RbSelectNotes(p)
    \/ RbExec(p)
    \/ Fetch(p)
    \/ SelectNotes(p)
    \/ Exec(p)
    \/ SaveAll(p)
    \/ Prune(p)
    \/ DbWriteFails(p)

Next ==
    \/ \E n \in NoteIds : \E row \in NoteRows(n) : SaveNote(n, row)
    \/ \E n \in NoteIds : DeleteNote(n)
    \/ OtherChange(Min(NoteIds))
    \/ ItemChangeSaved
    \/ runInBackground
    \/ IntervalFires
    \/ scheduleSyncTables
    \/ DebounceFires
    \/ \E p \in Callers : Step(p)

Spec == Init /\ [][Next]_vars

\* ------------------------------------------------- runs under fair scheduling

\* The specification of the runs started by scheduleSyncTables alone, each
\* collaborator call returning: the first run rebuilds, the later ones loop
\* over the changes written meanwhile.

LiveInit == Init /\ notes_normalized = [n \in NoteIds |-> 0]

\* The segments of syncTables(), every awaited call resolving.
LiveStep(p) ==
    \/ WaitForAllSaved(p)
    \/ RbSelectIds(p)
    \/ RbLastChangeId(p)
    \/ RbDelete(p)
    \/ RbSelectNotes(p)
    \/ RbExec(p)
    \/ Fetch(p)
    \/ SelectNotes(p)
    \/ Exec(p)
    \/ SaveAll(p)
    \/ Prune(p)

LiveNext ==
    \/ \E n \in NoteIds : \E row \in NoteRows(n) : SaveNote(n, row)
    \/ \E n \in NoteIds : DeleteNote(n)
    \/ OtherChange(Min(NoteIds))
    \/ ItemChangeSaved
    \/ scheduleSyncTables
    \/ DebounceFires
    \/ LiveStep("debounce")

\* What the event loop guarantees: a timer that is due fires, a change being
\* saved is saved, and a suspended syncTables() call whose awaited promise has
\* settled is resumed.  Nothing obliges the application to call
\* scheduleSyncTables, or the user to write a note.
Fairness ==
    /\ WF_vars(DebounceFires)
    /\ WF_vars(ItemChangeSaved)
    /\ WF_vars(LiveStep("debounce"))

LiveSpec == LiveInit /\ [][LiveNext]_vars /\ Fairness

\* ------------------------------------------------------------------ ranker

\* Rows of one search, occurrences of a row, and the highest position of an
\* occurrence.
MaxRows == 2
MaxOccurrences == 2
MaxPosition == 2

\* parsedQuery.termCount: one term, or more than one.
TermCounts == {1, 2}

\* offsets(notes_fts) of a row whose occurrences are at the given positions, in
\* the order reported: four integers per occurrence, (column + 1, term,
\* position, length).
RECURSIVE OffsetsAt(_)
OffsetsAt(positions) ==
    IF positions = <<>> THEN <<>>
    ELSE <<1, 0, Head(positions), 1>> \o OffsetsAt(Tail(positions))

\* The position sequences of a matching row: at least one occurrence.
RECURSIVE PositionSeqs(_)
PositionSeqs(k) ==
    IF k = 0 THEN {<<>>}
    ELSE { Append(s, x) : s \in PositionSeqs(k - 1), x \in 0..MaxPosition }

MatchPositions == UNION { PositionSeqs(k) : k \in 1..MaxOccurrences }

\* row.weight before orderResults_ has set it.
NoWeight == [num |-> 0, den |-> 1, set |-> FALSE]

\* The number num / den as JavaScript computes it: +Infinity when den = 0 and
\* num > 0, NaN when both are 0.
Div(num, den) ==
    IF den < 0 THEN [num |-> 0 - num, den |-> 0 - den, set |-> TRUE]
    ELSE [num |-> num, den |-> den, set |-> TRUE]

IsNaN(w) == w.num = 0 /\ w.den = 0

\* a.weight < b.weight: false when either is NaN.
WeightLess(a, b) == ~IsNaN(a) /\ ~IsNaN(b) /\ a.num * b.den < b.num * a.den

\* The loop of calculateWeight_: the sum of dist - previousDist over the
\* occurrences after the first.
RECURSIVE Spread(_, _)
Spread(offsets, i) ==
    IF i <= 1 THEN 0
    ELSE Spread(offsets, i - 1) + (offsets[(i - 1) * 4 + 3] - offsets[(i - 2) * 4 + 3])

\* calculateWeight_(offsets, termCount)
calculateWeight_(offsets, tc) ==
    LET occurenceCount == Len(offsets) \div 4
    IN  IF tc = 1 THEN Div(occurenceCount, 1)
        ELSE Div(occurenceCount, Spread(offsets, occurenceCount))

\* The comparator of rows.sort: +1 when a.weight < b.weight, -1 when
\* a.weight > b.weight, 0 otherwise.
Compare(a, b) ==
    IF WeightLess(a.weight, b.weight) THEN 1
    ELSE IF WeightLess(b.weight, a.weight) THEN 0 - 1
    ELSE 0

\* What Array.prototype.sort may leave: an order in which the comparator puts
\* no row after one that follows it.  Rows that compare 0 come in any order.
SortedBy(out) ==
    \A i \in 1..Len(out) : \A j \in (i + 1)..Len(out) : Compare(out[i], out[j]) <= 0

RankInit ==
    /\ SyncInit
    /\ notes_normalized = [n \in NoteIds |-> 0]
    /\ ParseIdle
    /\ rows = <<>>
    /\ termCount \in TermCounts
    /\ ordered = FALSE

\* The matching engine returns one more row.
MatchRow(positions) ==
    /\ ~ordered
    /\ Len(rows) < MaxRows
    /\ rows' = Append(rows, [offsets |-> OffsetsAt(positions), weight |-> NoWeight])
    /\ UNCHANGED <<termCount, ordered, syncVars, parseVars>>

\* orderResults_(rows, parsedQuery)
orderResults_ ==
    /\ ~ordered
    /\ LET weighed == [i \in 1..Len(rows) |->
                          [rows[i] EXCEPT !.weight = calculateWeight_(rows[i].offsets, termCount)]]
       IN  \E perm \in Permutations(1..Len(rows)) :
               /\ SortedBy([i \in 1..Len(rows) |-> weighed[perm[i]]])
               /\ rows' = [i \in 1..Len(rows) |-> weighed[perm[i]]]
    /\ ordered' = TRUE
    /\ UNCHANGED <<termCount, syncVars, parseVars>>

RankNext ==
    \/ \E positions \in MatchPositions : MatchRow(positions)
    \/ orderResults_

RankSpec == RankInit /\ [][RankNext]_vars

\* ------------------------------------------------------------------ parser

\* Length of the query string.
MaxQueryLen == 7

\* The characters of a query: a letter, the underscore, the wildcard, and the three characters
\* parseQuery treats specially.
Alphabet == {"a", "_", "*", " ", ":", "\""}

\* The column of unscoped terms, '_'.
DefaultCol == <<"_">>

\* terms is an object used as a mapping: here the sequence of its keys, in
\* insertion order, each with its list.
HasKey(terms, col) == \E i \in 1..Len(terms) : terms[i].col = col

\* terms[col].push(term)
Push(terms, col, term) ==
    [i \in 1..Len(terms) |->
        IF terms[i].col = col THEN [terms[i] EXCEPT !.list = Append(@, term)] ELSE terms[i]]

\* terms[col] = []
SetEmpty(terms, col) ==
    IF HasKey(terms, col)
    THEN [i \in 1..Len(terms) |->
            IF terms[i].col = col THEN [terms[i] EXCEPT !.list = <<>>] ELSE terms[i]]
    ELSE Append(terms, [col |-> col, list |-> <<>>])

\* The variables of the scan before the first character.  flushed is not a
\* variable of parseQuery: it records every push, for the claims.
ScanStart ==
    [ terms |-> << [col |-> DefaultCol, list |-> <<>>] >>,
      inQuote |-> FALSE, currentCol |-> DefaultCol, currentTerm |-> <<>>,
      flushed |-> <<>> ]

\* terms[currentCol].push(currentTerm); currentTerm = ''
Flush(st) ==
    [st EXCEPT !.terms = Push(st.terms, st.currentCol, st.currentTerm),
               !.flushed = Append(@, [col |-> st.currentCol, term |-> st.currentTerm]),
               !.currentTerm = <<>>]

\* One iteration of the for loop over the characters of the query.
ScanChar(st, c) ==
    IF c = "\""
    THEN IF st.inQuote THEN [Flush(st) EXCEPT !.inQuote = FALSE]
         ELSE [st EXCEPT !.inQuote = TRUE]
    ELSE IF c = " " /\ ~st.inQuote
    THEN IF st.currentTerm = <<>> THEN st
         ELSE [Flush(st) EXCEPT !.currentCol = DefaultCol]
    ELSE IF c = ":" /\ ~st.inQuote
    THEN [st EXCEPT !.currentCol = st.currentTerm,
                    !.terms = SetEmpty(st.terms, st.currentTerm),
                    !.currentTerm = <<>>]
    ELSE [st EXCEPT !.currentTerm = Append(@, c)]

RECURSIVE Scan(_, _)
Scan(st, str) == IF str = <<>> THEN st ELSE Scan(ScanChar(st, Head(str)), Tail(str))

\* if (currentTerm) terms[currentCol].push(currentTerm)
ScanEnd(st) == IF st.currentTerm # <<>> THEN Flush(st) ELSE st

\* while (term.length && term.indexOf('*') === 0) term = term.substr(1)
RECURSIVE StripLeadingStars(_)
StripLeadingStars(term) ==
    IF term # <<>> /\ Head(term) = "*" THEN StripLeadingStars(Tail(term)) ELSE term

\* pregQuote(str): a backslash before every character special in a regular
\* expression; of the characters of a term, '*' and ':'.
RECURSIVE pregQuote(_)
pregQuote(str) ==
    IF str = <<>> THEN <<>>
    ELSE (IF Head(str) \in {"*", ":"} THEN <<"\\", Head(str)>> ELSE <<Head(str)>>)
         \o pregQuote(Tail(str))

\* '[^' + pregQuote(' \t\n\r,.,+-*?!={}<>|:"\'()[]') + ']' + '*?': the class, as
\* one element, and the lazy quantifier.
LazyClass == <<"[^class]", "*", "?">>

\* queryTermToRegex(term)
queryTermToRegex(term) ==
    LET regexString == pregQuote(StripLeadingStars(term))
    IN  IF regexString # <<>> /\ regexString[Len(regexString)] = "*"
        THEN SubSeq(regexString, 1, Len(regexString) - 2) \o LazyClass
        ELSE regexString

\* if (term.indexOf('*') >= 0) { type: 'regex', ... } else { type: 'text', ... }
\* (scriptType, which the claims do not read, is left out).
ToTerm(term) ==
    IF \E i \in 1..Len(term) : term[i] = "*"
    THEN [type |-> "regex", value |-> queryTermToRegex(term), originalValue |-> term]
    ELSE [type |-> "text", value |-> term, originalValue |-> term]

\* The inner loop over terms[col]: a term '*' is spliced out, the others are
\* replaced by their term objects.
RECURSIVE FilterTerms(_)
FilterTerms(list) ==
    IF list = <<>> THEN <<>>
    ELSE (IF Head(list) = <<"*">> THEN <<>> ELSE <<ToTerm(Head(list))>>)
         \o FilterTerms(Tail(list))

\* The loop over the columns: one without terms is deleted.
RECURSIVE FilterColumns(_)
FilterColumns(terms) ==
    IF terms = <<>> THEN <<>>
    ELSE (IF Head(terms).list = <<>> THEN <<>>
          ELSE << [col |-> Head(terms).col, list |-> FilterTerms(Head(terms).list)] >>)
         \o FilterColumns(Tail(terms))

RECURSIVE CountTerms(_)
CountTerms(terms) ==
    IF terms = <<>> THEN 0 ELSE Len(Head(terms).list) + CountTerms(Tail(terms))

\* What parseQuery(str) returns.
ParseResult(str) ==
    LET terms == FilterColumns(ScanEnd(Scan(ScanStart, str)).terms)
    IN  [ termCount |-> CountTerms(terms),
          keys |-> [i \in 1..Len(terms) |-> terms[i].col],
          terms |-> terms ]

ParseInit ==
    /\ SyncInit
    /\ notes_normalized = [n \in NoteIds |-> 0]
    /\ RankIdle
    /\ query = <<>>
    /\ parsed = NotParsed

\* The user types one more character of the query.
TypeChar(c) ==
    /\ parsed = NotParsed
    /\ Len(query) < MaxQueryLen
    /\ query' = Append(query, c)
    /\ UNCHANGED <<parsed, syncVars, rankVars>>

\* parseQuery(query)
parseQuery ==
    /\ parsed = NotParsed
    /\ parsed' = ParseResult(query)
    /\ UNCHANGED <<query, syncVars, rankVars>>

ParseNext ==
    \/ \E c \in Alphabet : TypeChar(c)
    \/ parseQuery

ParseSpec == ParseInit /\ [][ParseNext]_vars

\* ------------------------------------------------------------------ claims

RunningPcs ==
    { "waitForAllSaved", "rb_selectIds", "rb_lastChangeId", "rb_delete", "rb_selectNotes",
      "rb_exec", "fetch", "selectNotes", "exec", "saveAll", "prune" }

\* Caller p's syncTables() call is past the guard and has not ended.
Running(p) == pc[p] \in RunningPcs

NoRun == \A p \in Callers : ~Running(p)

\* A step in which a caller calls syncTables(): a timer fires, or
\* runInBackground starts.
Invoked ==
    \/ debounceTimers' < debounceTimers
    \/ intervalTimers' < intervalTimers
    \/ (isRunningInBackground_' /\ ~isRunningInBackground_)

AtMostOneRun == Cardinality({ p \in Callers : Running(p) }) <= 1

BlockedCallIsNoop ==
    (Invoked /\ ~NoRun) =>
        /\ UNCHANGED <<lastProcessedChangeId, savedLastProcessedChangeId>>
        /\ UNCHANGED <<notes_normalized, initialIndexingDone>>
        /\ \A p \in Callers : (pc'[p] \in RunningPcs) <=> (pc[p] \in RunningPcs)

\* C1: a call of syncTables() made while a run is in progress starts no run
\* and leaves the watermark (in memory and saved), the index and the
\* initial-indexing flag as they were; at most one run is past the guard at
\* any time.
C1_RunGuard == []AtMostOneRun /\ [][BlockedCallIsNoop]_vars

\* C1 witness: runInBackground's run is in progress and the call made by its
\* timer has already returned.
C1_Witness == Running("bg") /\ pc["interval"] = "returned"

\* C2: whenever no run is in progress, whether the last one completed, returned
\* after the rebuild or threw 'Invalid change type', the guard is clear.  (The
\* runs ended by a rejected collaborator call are left out: the code's own
\* throw already decides the claim.)
C2_GuardReleased ==
    (NoRun /\ \A p \in Callers : pc[p] # "rejected") => ~isIndexing_

\* C3: after rebuildIndex_, and before any batch of changes has been applied,
\* every note whose index rows differ from the store has a change record
\* above the watermark the rebuild set (or one still being saved).
C3_NoChangeLost ==
    (initialIndexingDone /\ lastCommitted = 0) => AgreesAbove(lastProcessedChangeId)

\* C4: the watermark, in memory and as saved, never decreases.
C4_WatermarkMonotonic ==
    [][ /\ lastProcessedChangeId' >= lastProcessedChangeId
        /\ savedLastProcessedChangeId' >= savedLastProcessedChangeId ]_vars

\* C4 witness: after the rebuild, a batch was applied and saved, and a later
\* run was aborted by the 'Invalid change type' error.
C4_Witness ==
    /\ initialIndexingDone
    /\ savedLastProcessedChangeId > 0
    /\ \E p \in Callers : pc[p] = "failed"

\* C5: the saved watermark is at most the last id of the last applied batch,
\* at most one applied batch lies above it, and between building a batch and
\* applying it the watermark in memory is still below the batch's last id.
C5_SavedAfterCommit ==
    /\ savedLastProcessedChangeId <= lastCommitted
    /\ Cardinality(committedAbove) <= 1
    /\ \A p \in Callers :
           pc[p] = "exec" => lastProcessedChangeId < local[p].lastChangeId

\* C5 witness: a second batch has been applied and is not saved yet, the first
\* one is.
C5_Witness ==
    /\ \E p \in Callers : pc[p] = "saveAll"
    /\ savedLastProcessedChangeId > 0
    /\ committedAbove = {lastProcessedChangeId}
    /\ savedLastProcessedChangeId < lastProcessedChangeId

\* The loop of caller p's run has fetched nothing, and nothing was written
\* since: no change is being saved and none lies above the run's watermark.
LoopExited(p) ==
    /\ pc[p] = "prune"
    /\ pending = <<>>
    /\ SelectChanges(item_changes, local[p].lastChangeId) = <<>>

\* C6: when the loop of a run that started from an index agreeing with the
\* store at the watermark exits, with no write in flight, the index holds
\* exactly one row for every eligible note and none for any other id.
C6_IndexExact ==
    \A p \in Callers :
        (LoopExited(p) /\ agreedAtStart) => \A n \in NoteIds : Agrees(n)

\* C6 witness: the loop exits after applying two changes of one note.
C6_Witness ==
    \E p \in Callers :
        /\ LoopExited(p)
        /\ agreedAtStart
        /\ lastCommitted = 2
        /\ Len(item_changes) = 2
        /\ item_changes[1].item_id = item_changes[2].item_id

\* C7: after rebuildIndex_ with no note written since it began, the index
\* holds exactly one row for every eligible note and none for any other id.
C7_RebuildExact ==
    (initialIndexingDone /\ noWriteSinceRebuild) => \A n \in NoteIds : Agrees(n)

\* C7 witness: such a rebuild of more notes than one batch holds.
C7_Witness ==
    /\ initialIndexingDone
    /\ noWriteSinceRebuild
    /\ Cardinality({ n \in NoteIds : Eligible(notes[n]) }) > RebuildBatchSize

\* C8: once a run has been aborted by the 'Invalid change type' error, a call
\* of syncTables() starts a run.
C8_RunsAgainAfterError ==
    [][ ((\E q \in Callers : pc[q] = "failed") /\ NoRun /\ Invoked)
            => \E p \in Callers : pc'[p] = "waitForAllSaved" ]_vars

\* C9: once runInBackground has started, a timer for the next call of
\* syncTables() is always pending.
C9_IntervalRearmed == isRunningInBackground_ => intervalTimers > 0

\* C10: at most one timer of scheduleSyncTables is pending; while it is, no
\* call of its callback is in progress, and the calls of scheduleSyncTables it
\* has absorbed have left that one timer.
C10_Coalesced ==
    /\ debounceTimers <= 1
    /\ debounceTimers = 1 => (scheduleSyncTablesIID_ /\ pc["debounce"] = "idle")
    /\ coalesced => debounceTimers = 1

\* C10 witness: scheduleSyncTables was called while its timer was pending.
C10_Witness == coalesced /\ debounceTimers = 1

\* Caller p's run takes a step from the segment labelled at.
StepsFrom(p, at) == pc[p] = at /\ pc'[p] # at

HasInvalid(changes) == \E i \in 1..Len(changes) : ~ValidType(changes[i].type)

\* The Create and Update records of caller p's fetched batch whose note is not
\* in the item store.
MissingAt(p) ==
    { i \in 1..Len(local[p].changes) :
        /\ local[p].changes[i].type \in {TYPE_CREATE, TYPE_UPDATE}
        /\ ~notes[local[p].changes[i].item_id].exists }

\* Building the statements of a batch with such a record throws nothing and
\* pushes a DELETE and no INSERT for its id.
MissingBuilt ==
    \A p \in Callers : \A i \in MissingAt(p) :
        (StepsFrom(p, "selectNotes") /\ ~HasInvalid(local[p].changes)) =>
            /\ pc'[p] = "exec"
            /\ Delete(local[p].changes[i].item_id) \in Range(local'[p].queries)
            /\ Insert(local[p].changes[i].item_id) \notin Range(local'[p].queries)

\* Applying a batch leaves no row for an id it has a DELETE and no INSERT for,
\* and moves the watermark to or past every record of the batch.
MissingApplied ==
    \A p \in Callers :
        (StepsFrom(p, "exec") /\ pc'[p] = "saveAll") =>
            /\ \A n \in NoteIds :
                   (Delete(n) \in Range(local[p].queries)
                        /\ Insert(n) \notin Range(local[p].queries))
                     => notes_normalized'[n] = 0
            /\ \A i \in 1..Len(local[p].changes) :
                   lastProcessedChangeId' >= local[p].changes[i].id

\* C11: a Create or Update record whose note is gone from the item store when
\* its batch is processed raises no error, leaves no row for that id in
\* notes_normalized, and the watermark moves to or past the record.
C11_MissingNoteTolerated == [][MissingBuilt /\ MissingApplied]_vars

\* C11 witness: a batch holding the Create record of a note deleted after the
\* fetch has been applied; the Delete record is still being saved.
C11_Witness ==
    \E p \in Callers : \E i \in 1..Len(item_changes) :
        /\ pc[p] = "saveAll"
        /\ item_changes[i].id = lastCommitted
        /\ item_changes[i].type = TYPE_CREATE
        /\ ~notes[item_changes[i].item_id].exists
        /\ notes_normalized[item_changes[i].item_id] = 0
        /\ pending # <<>>

\* C12: once a batch is applied, notes_normalized has no row for any id whose
\* last record in the batch is a Delete, whatever it held before.
C12_DeleteRemoves ==
    [][ \A p \in Callers :
          (StepsFrom(p, "exec") /\ pc'[p] = "saveAll") =>
              \A i \in 1..Len(local[p].changes) :
                  ( /\ local[p].changes[i].type = TYPE_DELETE
                    /\ \A j \in (i + 1)..Len(local[p].changes) :
                           local[p].changes[j].item_id # local[p].changes[i].item_id )
                    => notes_normalized'[local[p].changes[i].item_id] = 0 ]_vars

\* C12 witness: a batch ending in a Delete record has been applied.
C12_Witness ==
    \E p \in Callers : \E i \in 1..Len(item_changes) :
        /\ pc[p] = "saveAll"
        /\ item_changes[i].id = lastCommitted
        /\ item_changes[i].type = TYPE_DELETE
        /\ notes_normalized[item_changes[i].item_id] = 0

\* The run of caller p that meets a record of an unknown type rejects, and that
\* step changes neither the index, the watermark nor the change log.
InvalidAborts ==
    \A p \in Callers :
        (StepsFrom(p, "selectNotes") /\ HasInvalid(local[p].changes)) =>
            /\ pc'[p] = "failed"
            /\ UNCHANGED <<notes_normalized, item_changes>>
            /\ UNCHANGED <<lastProcessedChangeId, savedLastProcessedChangeId>>

\* After such a run the record is still in item_changes, above the watermark
\* in memory and as saved, and every batch applied before it has been saved.
StateOfPreviousBatch ==
    (\E p \in Callers : pc[p] = "failed") =>
        /\ committedAbove = {}
        /\ \E i \in 1..Len(item_changes) :
               /\ ~ValidType(item_changes[i].type)
               /\ item_changes[i].id > lastProcessedChangeId
               /\ item_changes[i].id > savedLastProcessedChangeId

\* C16: a batch holding a record of an unrecognized type makes the run reject
\* with nothing of that batch applied, the watermark not moved and
\* deleteProcessedChanges not called.
C16_InvalidTypeAborts == []StateOfPreviousBatch /\ [][InvalidAborts]_vars

\* C16 witness: the second batch of a run held the record; the first one was
\* applied and saved.
C16_Witness ==
    /\ \E p \in Callers : pc[p] = "failed"
    /\ lastCommitted > 0
    /\ savedLastProcessedChangeId = lastCommitted

RbPcs == { "rb_selectIds", "rb_lastChangeId", "rb_delete", "rb_selectNotes", "rb_exec" }

\* The flag is set by the step that ends rebuildIndex_, and by no other.
FlagSetByRebuild ==
    (initialIndexingDone' /\ ~initialIndexingDone) =>
        \E p \in Callers :
            /\ pc[p] \in {"rb_delete", "rb_exec"}
            /\ local[p].noteIds = <<>>
            /\ pc'[p] \in {"returned", "idle"}

\* A run that finds the flag unset rebuilds, and from the rebuild it returns
\* or rejects: it fetches no change record and prunes nothing.
RebuildSkipsLoop ==
    \A p \in Callers :
        /\ (StepsFrom(p, "waitForAllSaved") /\ ~initialIndexingDone)
              => pc'[p] = "rb_selectIds"
        /\ (pc[p] \in RbPcs /\ pc'[p] # pc[p])
              => /\ pc'[p] \in RbPcs \cup {"returned", "idle", "rejected"}
                 /\ UNCHANGED item_changes

\* A rebuild that rejects leaves the flag unset.
FailedRebuildLeavesFlag ==
    \A p \in Callers :
        (pc[p] \in RbPcs /\ pc'[p] = "rejected") => ~initialIndexingDone'

\* After a rebuild that rejected, the next call of syncTables() starts a run
\* (which, the flag being unset, rebuilds).
FailedRebuildRetried ==
    ( /\ \E q \in Callers : pc[q] = "rejected"
      /\ ~initialIndexingDone
      /\ NoRun
      /\ Invoked )
      => \E p \in Callers : pc'[p] = "waitForAllSaved"

\* C17: a run with the flag unset rebuilds, sets the flag once the rebuild is
\* complete and returns without fetching a change record or pruning; a rebuild
\* that fails leaves the flag unset, and the next run rebuilds again.
C17_RebuildThenFlag ==
    [][ /\ FlagSetByRebuild
        /\ RebuildSkipsLoop
        /\ FailedRebuildLeavesFlag
        /\ FailedRebuildRetried ]_vars

\* A step of the loop of syncTables that builds a batch moves lastChangeId, the
\* bound of the next fetch, to the id of the batch's last record, above every
\* id fetched so far by the run.
FetchAdvances ==
    \A p \in Callers :
        /\ (StepsFrom(p, "fetch") /\ pc'[p] = "selectNotes")
              => \A i \in 1..Len(local'[p].changes) :
                     local'[p].changes[i].id > local[p].lastChangeId
        /\ (StepsFrom(p, "selectNotes") /\ pc'[p] = "exec")
              => /\ local'[p].lastChangeId > local[p].lastChangeId
                 /\ \A i \in 1..Len(local[p].changes) :
                        local'[p].lastChangeId >= local[p].changes[i].id
        /\ (pc[p] \in {"exec", "saveAll"} /\ pc'[p] \in {"saveAll", "fetch"})
              => local'[p].lastChangeId = local[p].lastChangeId

\* C18: every run of syncTables() ends, by returning or by throwing (a run in
\* progress leads to a state with none, and at most one is in progress); each
\* iteration of its loop raises the bound of the next fetch above every record
\* fetched, so that no record is fetched twice in a run.
C18_RunTerminates ==
    /\ [][FetchAdvances]_vars
    /\ (\E p \in Callers : Running(p)) ~> NoRun

\* C18 witness: a run has applied every record written and its last fetch,
\* above the last of them, was empty.
C18_Witness ==
    \E p \in Callers :
        /\ pc[p] = "prune"
        /\ local[p].lastChangeId = MaxChangeId
        /\ lastCommitted = MaxChangeId
        /\ savedLastProcessedChangeId = MaxChangeId

\* C19: no call of scheduleSyncTables() is dropped: whenever the function
\* would return early, its timer is pending, so that the callback calls
\* syncTables() after the call.
C19_NoRequestDropped == TimerPending(scheduleSyncTablesIID_) => debounceTimers > 0

\* The spread of a row: the sum of the successive differences of the positions
\* of its occurrences, in the order reported.
SpreadOf(row) == Spread(row.offsets, Len(row.offsets) \div 4)

\* C13: for a query of more than one term, of two rows with the same number of
\* occurrences and different spreads, orderResults_ puts the one with the
\* smaller spread first.  (Rows of spread 0, whose weight is the result of a
\* division by zero, are left out: the others already decide the claim.)
C13_SmallerSpreadFirst ==
    (ordered /\ termCount > 1) =>
        \A i \in 1..Len(rows) : \A j \in 1..Len(rows) :
            ( /\ Len(rows[i].offsets) = Len(rows[j].offsets)
              /\ SpreadOf(rows[i]) # 0
              /\ SpreadOf(rows[j]) # 0
              /\ SpreadOf(rows[i]) < SpreadOf(rows[j]) ) => i < j

\* The term objects of column col in the value parseQuery returned.
TermsOf(result, col) ==
    IF \E i \in 1..Len(result.terms) : result.terms[i].col = col
    THEN result.terms[CHOOSE i \in 1..Len(result.terms) : result.terms[i].col = col].list
    ELSE <<>>

HasStar(term) == \E i \in 1..Len(term) : term[i] = "*"

\* A term with every '*' replaced by the lazy class and every other special
\* character quoted.
RECURSIVE RewriteStars(_)
RewriteStars(term) ==
    IF term = <<>> THEN <<>>
    ELSE (IF Head(term) = "*" THEN LazyClass ELSE pregQuote(<<Head(term)>>))
         \o RewriteStars(Tail(term))

\* C14: a term of the parsed query is of type regex exactly when it contains a
\* '*' after its leading '*' characters are stripped, and of type text
\* otherwise; in a regex term every such '*' is rewritten to the lazy class.
\* (Stated for the terms that are not made of '*' alone.)
C14_Classification ==
    parsed # NotParsed =>
        \A c \in 1..Len(parsed.terms) : \A i \in 1..Len(parsed.terms[c].list) :
            LET term == parsed.terms[c].list[i]
                stripped == StripLeadingStars(term.originalValue)
            IN  stripped # <<>> =>
                    /\ (term.type = "regex") <=> HasStar(stripped)
                    /\ (term.type = "text") <=> ~HasStar(stripped)
                    /\ term.type = "regex" => term.value = RewriteStars(stripped)

Word(k) == [i \in 1..k |-> "a"]

\* The words that fit a query of a column, a term and a second term.
Words == { Word(k) : k \in 1..(MaxQueryLen - 4) }

TextTerm(word) == [type |-> "text", value |-> word, originalValue |-> word]

\* C15: for a query col:term or col:"term", followed by a space and a second
\* word, the term is in column col, the second word in the default column, and
\* termCount is 2.
C15_ScopeOneTerm ==
    (parsed # NotParsed /\ Len(query) >= 5) =>
        \A col \in Words : \A t \in Words : \A u \in Words : \A quoted \in BOOLEAN :
            query = col \o <<":">> \o (IF quoted THEN <<"\"">> \o t \o <<"\"">> ELSE t)
                        \o <<" ">> \o u
              => /\ parsed.termCount = 2
                 /\ TermsOf(parsed, col) = <<TextTerm(t)>>
                 /\ TermsOf(parsed, DefaultCol) = <<TextTerm(u)>>

\* The terms pushed during the scan of the query, a bare '*' aside, each with
\* the column that was current.
Kept(str) ==
    SelectSeq(ScanEnd(Scan(ScanStart, str)).flushed, LAMBDA f : f.term # <<"*">>)

\* C20: every term pushed during the scan, a bare '*' aside, is in the value
\* returned, in the column that was current when it was pushed, and termCount
\* is the number of these terms.  (Stated for the queries that push no term to
\* a column of the empty name.)
C20_NoTermLost ==
    (parsed # NotParsed /\ \A k \in 1..Len(Kept(query)) : Kept(query)[k].col # <<>>) =>
        /\ parsed.termCount = Len(Kept(query))
        /\ \A k \in 1..Len(Kept(query)) :
               LET col == Kept(query)[k].col
                   pushed == SelectSeq(Kept(query), LAMBDA f : f.col = col)
                   found == TermsOf(parsed, col)
               IN  /\ Len(found) = Len(pushed)
                   /\ \A i \in 1..Len(found) : found[i].originalValue = pushed[i].term

====
